---- MODULE Spec2Model ----
(***************************************************************************)
(* The landing-page script (src/script.js) and the earlier inline script   *)
(* (src/unnamed/part_000) as a state machine over the document.            *)
(*                                                                         *)
(* The DOMContentLoaded handler runs init(), which calls the eight         *)
(* initializers in order; each one registers listeners.  After that the    *)
(* browser dispatches events (scroll, click, keydown, timer, intersection) *)
(* one at a time; a dispatch runs every registered listener for the event  *)
(* in propagation / registration order, and an exception in one listener   *)
(* ends that listener only.                                                *)
(***************************************************************************)
EXTENDS Integers, Sequences, FiniteSets, TLC

(* ------------------------------ bounds -------------------------------- *)
MaxTestimonials == 3
MaxImages == 2
MaxEntries == 2
MaxFields == 2
MaxLen == 2

(* ------------------------- program constants -------------------------- *)
ScrollThreshold == 100
MobileBreakpoint == 768
ElementVisible == 150
InlineHeaderOffset == 80

CompactStyle == [padding |-> "10px 0", boxShadow |-> "0 5px 20px rgba(0, 0, 0, 0.1)"]
DefaultStyle == [padding |-> "20px 0", boxShadow |-> "0 2px 10px rgba(0, 0, 0, 0.1)"]
UnsetStyle == [padding |-> "", boxShadow |-> ""]

HiddenCard == [opacity |-> "0", transform |-> "translateY(20px)"]
RevealedCard == [opacity |-> "1", transform |-> "translateY(0)"]
UnsetCard == [opacity |-> "", transform |-> ""]

(* ------------------------- the host document -------------------------- *)
\* Scroll offsets the browser reports, on both sides of the threshold.
ScrollOffsets == {0, 100, 101, 600, 1200}
\* Rendered header heights (the header can be resized between clicks).
HeaderHeights == {60, 80}
\* Viewport widths on both sides of the mobile breakpoint.
InnerWidths == {768, 1024}
\* Viewport heights: one that leaves the testimonials below the fold at
\* startup and one that shows the whole page.
InnerHeights == {600, 2000}

\* Same-page anchors of the document: "#", one whose id matches no element,
\* and two whose ids exist.  "" is an element that is not inside an anchor.
ExistingIds == {"#features", "#pricing"}
Hrefs == {"#", "#missing"} \cup ExistingIds
OffsetTop(id) == IF id = "#features" THEN 500 ELSE 900

\* Where a click lands: inside the toggle button, inside the nav panel, or
\* outside both.  The toggle button contains no same-page anchor.
ClickTargets ==
    {[region |-> "toggle", href |-> ""]}
    \cup [region : {"panel", "outside"}, href : {""} \cup Hrefs]
Keys == {"Escape", "Tab", "Enter"}

VARIABLES
    \* the document the script is loaded into
    script, headerPresent, menuPresent, nTestimonials, ioSupported,
    forEachSupported,
    \* bootstrap
    pc, called, registered, consoleLog,
    \* window
    scrollY, headerHeight, innerWidth, innerHeight,
    \* header and mobile menu
    header, navDisplay, ariaExpanded, focus, urlFragment,
    \* testimonial rotator
    display, ariaHidden, currentTestimonial,
    \* scroll animations
    cardStyle,
    \* lazy images
    src, lazy, observed, delivered,
    \* accessibility
    keyboardNavigation, modeEvent,
    \* form
    value, errorClass, children, returned,
    \* the event dispatched last, with what its listeners did
    last

docVars == <<script, headerPresent, menuPresent, nTestimonials, ioSupported,
             forEachSupported>>
bootVars == <<pc, called, registered, consoleLog>>
windowVars == <<scrollY, headerHeight, innerWidth, innerHeight>>
menuVars == <<navDisplay, ariaExpanded, focus, urlFragment>>
sliderVars == <<display, ariaHidden, currentTestimonial>>
imageVars == <<src, lazy, observed, delivered>>
a11yVars == <<keyboardNavigation, modeEvent>>
formVars == <<value, errorClass, children, returned>>
vars == <<docVars, bootVars, windowVars, header, menuVars, sliderVars, cardStyle,
          imageVars, a11yVars, formVars, last>>

\* init() calls the initializers in this order; pc is the position of the next.
Initializers ==
    <<"initStickyHeader", "initMobileMenu", "initSmoothScrolling",
      "initTestimonialsSlider", "initPerformanceOptimizations",
      "initAccessibilityFeatures", "initFormValidation", "initScrollAnimations">>
Done == Len(Initializers) + 1
Testimonials == 0 .. (nTestimonials - 1)
\* Cards animated on scroll: the testimonial cards, one feature card and one
\* pricing card.
FeatureCard == nTestimonials
PricingCard == nTestimonials + 1
Cards == 0 .. (nTestimonials + 1)
Images == 1 .. MaxImages

MenuState(d, a, f) == [navDisplay |-> d, ariaExpanded |-> a, focus |-> f]
NoEvent ==
    [type |-> "none", region |-> "", href |-> "", key |-> "",
     pre |-> MenuState("", "", ""), mid |-> MenuState("", "", ""),
     scrollTo |-> <<>>, pushState |-> <<>>, errors |-> {}, logged |-> {},
     defaultPrevented |-> FALSE]

(* ------------------------- sticky header ------------------------------ *)
\* StickyHeaderStyle with >= in place of >.
StickyHeaderStyleAtThreshold(y) ==
    IF y >= ScrollThreshold THEN CompactStyle ELSE DefaultStyle

\* The style the scroll listener writes for scroll offset y.
StickyHeaderStyle(y) ==
    IF y > ScrollThreshold THEN CompactStyle ELSE DefaultStyle

(* --------------------------- mobile menu ------------------------------ *)
\* The part of the page the click and key listeners read and write, with
\* the calls they make (scrollTo, pushState), the exceptions they raise and
\* whether the default action was prevented.
Page ==
    [navDisplay |-> navDisplay, ariaExpanded |-> ariaExpanded, focus |-> focus,
     urlFragment |-> urlFragment, scrollTo |-> <<>>, pushState |-> <<>>,
     errors |-> {}, defaultPrevented |-> FALSE]

\* Click listener of the toggle button.
ToggleClick(s) ==
    IF s.navDisplay = "flex"
    THEN [s EXCEPT !.navDisplay = "none", !.ariaExpanded = "false"]
    ELSE [s EXCEPT !.navDisplay = "flex", !.ariaExpanded = "true"]

\* OutsideClick testing only navLinks.contains(event.target).
OutsideClickPanelOnly(s, region) ==
    IF region # "panel"
    THEN [s EXCEPT !.navDisplay = "none", !.ariaExpanded = "false"]
    ELSE s

\* OutsideClick with || in place of && between the two contains tests.
OutsideClickEither(s, region) ==
    IF region # "panel" \/ region # "toggle"
    THEN [s EXCEPT !.navDisplay = "none", !.ariaExpanded = "false"]
    ELSE s

\* Document-level click listener; region is where the click target lies.
OutsideClick(s, region) ==
    IF region # "panel" /\ region # "toggle"
    THEN [s EXCEPT !.navDisplay = "none", !.ariaExpanded = "false"]
    ELSE s

\* EscapeKeydown without the test that the menu is open.
EscapeKeydownAnyState(s, key) ==
    IF key = "Escape"
    THEN [s EXCEPT !.navDisplay = "none", !.ariaExpanded = "false",
                   !.focus = "toggle"]
    ELSE s

\* Document-level keydown listener.
EscapeKeydown(s, key) ==
    IF key = "Escape" /\ s.navDisplay = "flex"
    THEN [s EXCEPT !.navDisplay = "none", !.ariaExpanded = "false",
                   !.focus = "toggle"]
    ELSE s

(* -------------------------- smooth scrolling -------------------------- *)
\* The scroll position the anchor handler asks for.
TargetPosition(id) == OffsetTop(id) - headerHeight

\* AnchorClick reading the header height before it looks the target up.
AnchorClickHeaderFirst(s, href) ==
    LET s1 == [s EXCEPT !.defaultPrevented = TRUE] IN
    IF href = "#" THEN s1
    ELSE IF ~headerPresent THEN [s1 EXCEPT !.errors = @ \cup {"click:anchor"}]
    ELSE IF href \notin ExistingIds THEN s1
    ELSE
    LET s2 == [s1 EXCEPT !.scrollTo = Append(@, TargetPosition(href)),
                         !.pushState = Append(@, href),
                         !.urlFragment = href]
        s3 == IF innerWidth <= MobileBreakpoint /\ menuPresent
              THEN [s2 EXCEPT !.navDisplay = "none", !.ariaExpanded = "false"]
              ELSE s2
    IN [s3 EXCEPT !.focus = href]

\* AnchorClick closing the menu at any viewport width.
AnchorClickAnyWidth(s, href) ==
    LET s1 == [s EXCEPT !.defaultPrevented = TRUE] IN
    IF href = "#" THEN s1
    ELSE IF href \notin ExistingIds THEN s1
    ELSE IF ~headerPresent THEN [s1 EXCEPT !.errors = @ \cup {"click:anchor"}]
    ELSE
    LET s2 == [s1 EXCEPT !.scrollTo = Append(@, TargetPosition(href)),
                         !.pushState = Append(@, href),
                         !.urlFragment = href]
        s3 == IF menuPresent
              THEN [s2 EXCEPT !.navDisplay = "none", !.ariaExpanded = "false"]
              ELSE s2
    IN [s3 EXCEPT !.focus = href]

\* AnchorClick hiding the panel without writing aria-expanded.
AnchorClickDisplayOnly(s, href) ==
    LET s1 == [s EXCEPT !.defaultPrevented = TRUE] IN
    IF href = "#" THEN s1
    ELSE IF href \notin ExistingIds THEN s1
    ELSE IF ~headerPresent THEN [s1 EXCEPT !.errors = @ \cup {"click:anchor"}]
    ELSE
    LET s2 == [s1 EXCEPT !.scrollTo = Append(@, TargetPosition(href)),
                         !.pushState = Append(@, href),
                         !.urlFragment = href]
        s3 == IF innerWidth <= MobileBreakpoint /\ menuPresent
              THEN [s2 EXCEPT !.navDisplay = "none"]
              ELSE s2
    IN [s3 EXCEPT !.focus = href]

\* Click listener of a same-page anchor with the given href.
AnchorClick(s, href) ==
    LET s1 == [s EXCEPT !.defaultPrevented = TRUE] IN
    IF href = "#" THEN s1
    ELSE IF href \notin ExistingIds THEN s1
    ELSE IF ~headerPresent
         \* document.querySelector('header') is null: reading offsetHeight throws
         THEN [s1 EXCEPT !.errors = @ \cup {"click:anchor"}]
    ELSE
    LET s2 == [s1 EXCEPT !.scrollTo = Append(@, TargetPosition(href)),
                         !.pushState = Append(@, href),
                         !.urlFragment = href]
        s3 == IF innerWidth <= MobileBreakpoint /\ menuPresent
              THEN [s2 EXCEPT !.navDisplay = "none", !.ariaExpanded = "false"]
              ELSE s2
    IN [s3 EXCEPT !.focus = href]

(* ----------------------- the earlier inline script -------------------- *)
\* The style the inline scroll listener writes for scroll offset y.
InlineHeaderStyle(y) ==
    IF y > ScrollThreshold THEN CompactStyle ELSE DefaultStyle

InlineToggleClick(s) ==
    [s EXCEPT !.navDisplay = IF s.navDisplay = "flex" THEN "none" ELSE "flex"]

InlineTargetPosition(id) == OffsetTop(id) - InlineHeaderOffset

InlineAnchorClick(s, href) ==
    LET s1 == [s EXCEPT !.defaultPrevented = TRUE] IN
    IF href = "#" THEN s1
    ELSE IF href \notin ExistingIds THEN s1
    ELSE
    LET s2 == [s1 EXCEPT !.scrollTo = Append(@, InlineTargetPosition(href))]
    IN IF innerWidth <= MobileBreakpoint
       THEN [s2 EXCEPT !.navDisplay = "none"]
       ELSE s2

(* ------------------------- testimonial rotator ------------------------ *)
\* ShowTestimonial with aria-hidden set from i === index.
ShowTestimonialAriaSwapped(index) ==
    [display |-> [i \in Testimonials |-> IF i = index THEN "block" ELSE "none"],
     ariaHidden |-> [i \in Testimonials |-> IF i = index THEN "true" ELSE "false"],
     currentTestimonial |-> index]

\* showTestimonial(index); setAttribute writes the boolean as a string.
ShowTestimonial(index) ==
    [display |-> [i \in Testimonials |-> IF i = index THEN "block" ELSE "none"],
     ariaHidden |-> [i \in Testimonials |-> IF i # index THEN "true" ELSE "false"],
     currentTestimonial |-> index]

\* NextIndex without the wrap-around.
NextIndexNoWrap(current, length) == current + 1

\* The index the timer callback shows next.
NextIndex(current, length) == (current + 1) % length

(* -------------------------- scroll animations ------------------------- *)
\* Document-relative top of each card; the testimonial cards share one slot.
CardTop(c) ==
    IF c < nTestimonials THEN 1500 ELSE IF c = FeatureCard THEN 300 ELSE 900

\* getBoundingClientRect().top: relative to the viewport, and 0 for an
\* element that is not rendered (display none).
RectTop(c, y, disp) ==
    IF c < nTestimonials /\ disp[c] = "none" THEN 0 ELSE CardTop(c) - y

\* AnimateOnScroll hiding a card again when it is no longer above the line.
AnimateOnScrollBothWays(style, y, disp) ==
    [c \in Cards |->
        IF RectTop(c, y, disp) < innerHeight - ElementVisible
        THEN RevealedCard ELSE HiddenCard]

AnimateOnScroll(style, y, disp) ==
    [c \in Cards |->
        IF RectTop(c, y, disp) < innerHeight - ElementVisible
        THEN RevealedCard ELSE style[c]]

(* ------------------------------ bootstrap ----------------------------- *)
\* The listeners installed while the script is evaluated, before the
\* DOMContentLoaded handler runs init().  The host is taken to have
\* PerformanceObserver, so that script.js is evaluated to its end.
ModuleScope(s) == IF s = "script.js" THEN {"error", "unhandledrejection"} ELSE {}

\* What init() writes to the console.
InitSuccess == "Nexus Landing Page initialized successfully"
InitError == "Error initializing Nexus Landing Page:"

InitPage(scripts, headers, menus, counts, observers, expanded, classes, heights, widths) ==
    /\ script \in scripts
    /\ headerPresent \in headers
    /\ menuPresent \in menus
    /\ nTestimonials \in counts
    /\ ioSupported \in observers
    /\ pc = 1
    /\ called = <<>>
    /\ registered = ModuleScope(script)
    /\ consoleLog = <<>>
    /\ scrollY = 0
    /\ headerHeight \in heights
    /\ innerWidth \in widths
    /\ header = UnsetStyle
    /\ navDisplay = ""
    /\ ariaExpanded \in expanded
    /\ focus = "body"
    /\ urlFragment = ""
    /\ display = [i \in Testimonials |-> ""]
    /\ ariaHidden = [i \in Testimonials |-> ""]
    /\ currentTestimonial = 0
    /\ cardStyle = [c \in Cards |-> UnsetCard]
    /\ src = [i \in Images |-> 0]
    /\ lazy \in [Images -> classes]
    /\ observed = {}
    /\ delivered = [i \in Images |-> FALSE]
    /\ keyboardNavigation = FALSE
    /\ modeEvent = "none"
    /\ last = NoEvent

\* The host: whether NodeList.prototype.forEach exists (a call of a missing
\* method throws a TypeError), and the height of the viewport.
InitHost(hosts, viewports) == forEachSupported \in hosts /\ innerHeight \in viewports

Step(name) == pc <= Len(Initializers) /\ script = "script.js" /\ Initializers[pc] = name

\* AfterThrow with a try block of its own around each initializer.
AfterThrowNext(k) == k + 1

\* Where init() goes on when initializer k throws: to its catch block, after
\* which it returns.
AfterThrow(k) == Done

\* The initializer called at pc returns normally.
Return(name) == called' = Append(called, name) /\ pc' = pc + 1

\* The initializer called at pc throws; the catch block of init() logs it.
Throw(name) ==
    /\ called' = Append(called, name)
    /\ pc' = AfterThrow(pc)
    /\ consoleLog' = Append(consoleLog, InitError)

InitStickyHeader ==
    /\ Step("initStickyHeader")
    /\ Return("initStickyHeader")
    /\ registered' = registered \cup {"scroll:sticky"}
    /\ UNCHANGED <<docVars, consoleLog, windowVars, header, menuVars, sliderVars,
                   cardStyle, imageVars, a11yVars, formVars, last>>

InitMobileMenu ==
    /\ Step("initMobileMenu")
    /\ Return("initMobileMenu")
    /\ registered' = IF menuPresent
                     THEN registered \cup {"click:toggle", "click:document",
                                           "keydown:document"}
                     ELSE registered
    /\ UNCHANGED <<docVars, consoleLog, windowVars, header, menuVars, sliderVars,
                   cardStyle, imageVars, a11yVars, formVars, last>>

InitSmoothScrolling ==
    /\ Step("initSmoothScrolling")
    /\ IF forEachSupported
       THEN /\ Return("initSmoothScrolling")
            /\ registered' = registered \cup {"click:anchor"}
            /\ UNCHANGED consoleLog
       ELSE /\ Throw("initSmoothScrolling")
            /\ UNCHANGED registered
    /\ UNCHANGED <<docVars, windowVars, header, menuVars, sliderVars,
                   cardStyle, imageVars, a11yVars, formVars, last>>

\* SliderNeeded for one testimonial too.
SliderNeededForOne(length) == ~(length < 1)

\* The rotator is set up unless there is at most one testimonial.
SliderNeeded(length) == ~(length <= 1)

\* Without forEach the timer is already set when showTestimonial(0) throws.
InitTestimonialsSlider ==
    /\ Step("initTestimonialsSlider")
    /\ IF ~SliderNeeded(nTestimonials)
       THEN /\ Return("initTestimonialsSlider")
            /\ UNCHANGED <<registered, consoleLog, sliderVars>>
       ELSE IF forEachSupported
       THEN /\ Return("initTestimonialsSlider")
            /\ registered' = registered \cup {"timer"}
            /\ display' = ShowTestimonial(0).display
            /\ ariaHidden' = ShowTestimonial(0).ariaHidden
            /\ currentTestimonial' = ShowTestimonial(0).currentTestimonial
            /\ UNCHANGED consoleLog
       ELSE /\ Throw("initTestimonialsSlider")
            /\ registered' = registered \cup {"timer"}
            /\ UNCHANGED sliderVars
    /\ UNCHANGED <<docVars, windowVars, header, menuVars,
                   cardStyle, imageVars, a11yVars, formVars, last>>

\* Without forEach the observer exists but observes nothing.
InitPerformanceOptimizations ==
    /\ Step("initPerformanceOptimizations")
    /\ IF ~ioSupported
       THEN /\ Return("initPerformanceOptimizations")
            /\ UNCHANGED <<registered, consoleLog, observed>>
       ELSE IF forEachSupported
       THEN /\ Return("initPerformanceOptimizations")
            /\ registered' = registered \cup {"intersection"}
            /\ observed' = Images
            /\ UNCHANGED consoleLog
       ELSE /\ Throw("initPerformanceOptimizations")
            /\ UNCHANGED <<registered, observed>>
    /\ UNCHANGED <<docVars, windowVars, header, menuVars, sliderVars,
                   cardStyle, src, lazy, delivered, a11yVars, formVars,
                   last>>

InitAccessibilityFeatures ==
    /\ Step("initAccessibilityFeatures")
    /\ Return("initAccessibilityFeatures")
    /\ registered' = registered \cup {"keyup", "mousedown"}
    /\ UNCHANGED <<docVars, consoleLog, windowVars, header, menuVars, sliderVars,
                   cardStyle, imageVars, a11yVars, formVars, last>>

InitFormValidation ==
    /\ Step("initFormValidation")
    /\ Return("initFormValidation")
    /\ registered' = registered \cup {"validateForm"}
    /\ UNCHANGED <<docVars, consoleLog, windowVars, header, menuVars, sliderVars,
                   cardStyle, imageVars, a11yVars, formVars, last>>

\* The last initializer; init() then logs its success message.
InitScrollAnimations ==
    /\ Step("initScrollAnimations")
    /\ IF forEachSupported
       THEN /\ Return("initScrollAnimations")
            /\ registered' = registered \cup {"scroll:animate"}
            /\ cardStyle' = AnimateOnScroll([c \in Cards |-> HiddenCard], scrollY,
                                            display)
            /\ consoleLog' = Append(consoleLog, InitSuccess)
       ELSE /\ Throw("initScrollAnimations")
            /\ UNCHANGED <<registered, cardStyle>>
    /\ UNCHANGED <<docVars, windowVars, header, menuVars, sliderVars,
                   imageVars, a11yVars, formVars, last>>

\* The inline script runs top to bottom; with the menu elements missing it
\* throws at mobileMenu.addEventListener and registers nothing after it.
InlineScript ==
    /\ pc = 1 /\ script = "inline"
    /\ registered' = IF menuPresent
                     THEN {"scroll:inline", "click:toggle:inline", "click:anchor:inline"}
                     ELSE {"scroll:inline"}
    /\ pc' = Done
    /\ last' = [NoEvent EXCEPT !.type = "load",
                               !.errors = IF menuPresent THEN {} ELSE {"inline"}]
    /\ UNCHANGED <<docVars, called, consoleLog, windowVars, header, menuVars,
                   sliderVars, cardStyle, imageVars, a11yVars, formVars>>

(* ------------------------------- events ------------------------------- *)
Event(type) ==
    [NoEvent EXCEPT !.type = type,
                    !.pre = MenuState(navDisplay, ariaExpanded, focus),
                    !.mid = MenuState(navDisplay, ariaExpanded, focus)]

\* The window's 'error' listener logs every exception a listener let escape;
\* the result is the set of listeners whose exception it logged.
ErrorListener(errors) == IF "error" \in registered THEN errors ELSE {}

\* StickyErrors for a listener that tests header before it writes the style.
StickyErrorsGuarded(reg) == {}

\* The sticky-header listeners that throw on a scroll event: header is null
\* on a page without a header element, and writing header.style throws.
StickyErrors(reg) ==
    IF headerPresent THEN {} ELSE {"scroll:sticky", "scroll:inline"} \cap reg

\* A scroll event at offset y: the sticky-header listener, then
\* animateOnScroll.
Scroll(y) ==
    /\ pc = Done
    /\ scrollY' = y
    /\ header' = IF ~headerPresent THEN header
                 ELSE IF "scroll:sticky" \in registered THEN StickyHeaderStyle(y)
                 ELSE IF "scroll:inline" \in registered THEN InlineHeaderStyle(y)
                 ELSE header
    /\ last' = [Event("scroll") EXCEPT
                   !.errors = StickyErrors(registered),
                   !.logged = ErrorListener(StickyErrors(registered))]
    /\ cardStyle' = IF "scroll:animate" \in registered
                    THEN AnimateOnScroll(cardStyle, y, display) ELSE cardStyle
    /\ UNCHANGED <<docVars, bootVars, headerHeight, innerWidth, innerHeight,
                   menuVars, sliderVars, imageVars, a11yVars, formVars>>

\* The window is resized: the header re-renders at another height.
Resize(h, w) ==
    /\ pc = Done
    /\ <<h, w>> # <<headerHeight, innerWidth>>
    /\ headerHeight' = h
    /\ innerWidth' = w
    /\ last' = Event("resize")
    /\ UNCHANGED <<docVars, bootVars, scrollY, innerHeight, header, menuVars,
                   sliderVars, cardStyle, imageVars, a11yVars, formVars>>

\* A click on target t: the listeners on the path from the target up to the
\* document run in that order.  Without a listener that prevents it, the
\* default action of an anchor navigates to its fragment.
Click(t) ==
    /\ pc = Done
    /\ t.region \in {"toggle", "panel"} => menuPresent
    /\ LET s0 == Page
           s1 == IF t.href = "" THEN s0
                 ELSE IF "click:anchor" \in registered THEN AnchorClick(s0, t.href)
                 ELSE IF "click:anchor:inline" \in registered
                      THEN InlineAnchorClick(s0, t.href)
                 ELSE s0
           s2 == IF t.region # "toggle" THEN s1
                 ELSE IF "click:toggle" \in registered THEN ToggleClick(s1)
                 ELSE IF "click:toggle:inline" \in registered
                      THEN InlineToggleClick(s1)
                 ELSE s1
           s3 == IF "click:document" \in registered
                 THEN OutsideClick(s2, t.region) ELSE s2
           s4 == IF t.href # "" /\ ~s3.defaultPrevented
                 THEN [s3 EXCEPT !.urlFragment = t.href] ELSE s3
       IN /\ navDisplay' = s4.navDisplay
          /\ ariaExpanded' = s4.ariaExpanded
          /\ focus' = s4.focus
          /\ urlFragment' = s4.urlFragment
          /\ last' = [Event("click") EXCEPT
                         !.region = t.region, !.href = t.href,
                         !.mid = MenuState(s2.navDisplay, s2.ariaExpanded, s2.focus),
                         !.scrollTo = s4.scrollTo, !.pushState = s4.pushState,
                         !.errors = s4.errors,
                         !.logged = ErrorListener(s4.errors),
                         !.defaultPrevented = s4.defaultPrevented]
    /\ UNCHANGED <<docVars, bootVars, windowVars, header, sliderVars, cardStyle,
                   imageVars, a11yVars, formVars>>

\* A keydown event with the given key.
KeyDown(key) ==
    /\ pc = Done
    /\ LET s0 == Page
           s1 == IF "keydown:document" \in registered
                 THEN EscapeKeydown(s0, key) ELSE s0
       IN /\ navDisplay' = s1.navDisplay
          /\ ariaExpanded' = s1.ariaExpanded
          /\ focus' = s1.focus
          /\ last' = [Event("keydown") EXCEPT !.key = key]
    /\ UNCHANGED <<docVars, bootVars, windowVars, header, urlFragment, sliderVars,
                   cardStyle, imageVars, a11yVars, formVars>>

\* AfterTick for a timer set with setTimeout: it fires once.
AfterTickOnce(reg) == reg \ {"timer"}

\* The callbacks registered after the timer has fired: setInterval keeps its
\* callback scheduled, and nothing in the script calls clearInterval.
AfterTick(reg) == reg

\* The rotation timer fires.
TimerTick ==
    /\ pc = Done
    /\ "timer" \in registered
    /\ LET shown == ShowTestimonial(NextIndex(currentTestimonial, nTestimonials)) IN
       /\ display' = shown.display
       /\ ariaHidden' = shown.ariaHidden
       /\ currentTestimonial' = shown.currentTestimonial
    /\ registered' = AfterTick(registered)
    /\ last' = Event("timer")
    /\ UNCHANGED <<docVars, pc, called, consoleLog, windowVars, header, menuVars,
                   cardStyle, imageVars, a11yVars, formVars>>

(* ---------------------------- accessibility --------------------------- *)
\* KeyupListener without the test of the key.
KeyupListenerAnyKey(class, key) == TRUE

\* The keyup listener: whether the root element has the
\* 'keyboard-navigation' class after it, given whether it had it before.
KeyupListener(class, key) == IF key = "Tab" THEN TRUE ELSE class

\* The mousedown listener removes the class.
MousedownListener(class) == FALSE

\* A keyup event with the given key.  modeEvent is the later of the last Tab
\* keyup and the last mousedown.
KeyUp(key) ==
    /\ pc = Done
    /\ keyboardNavigation' = IF "keyup" \in registered
                             THEN KeyupListener(keyboardNavigation, key)
                             ELSE keyboardNavigation
    /\ modeEvent' = IF key = "Tab" THEN "keyup:Tab" ELSE modeEvent
    /\ last' = [Event("keyup") EXCEPT !.key = key]
    /\ UNCHANGED <<docVars, bootVars, windowVars, header, menuVars, sliderVars,
                   cardStyle, imageVars, formVars>>

\* A mousedown event anywhere in the document.
MouseDown ==
    /\ pc = Done
    /\ keyboardNavigation' = IF "mousedown" \in registered
                             THEN MousedownListener(keyboardNavigation)
                             ELSE keyboardNavigation
    /\ modeEvent' = "mousedown"
    /\ last' = Event("mousedown")
    /\ UNCHANGED <<docVars, bootVars, windowVars, header, menuVars, sliderVars,
                   cardStyle, imageVars, formVars>>

(* ---------------------------- lazy loading ---------------------------- *)
\* src 0 is the placeholder an image starts with; image i's data-src is i.
DataSrc(i) == i

\* OnEntry without the isIntersecting test.
OnEntryAlways(st, entry) ==
    [src |-> [st.src EXCEPT ![entry.target] = DataSrc(entry.target)],
     lazy |-> [st.lazy EXCEPT ![entry.target] = FALSE],
     observed |-> st.observed \ {entry.target}]

\* What the observer callback does for one entry.
OnEntry(st, entry) ==
    IF entry.isIntersecting
    THEN [src |-> [st.src EXCEPT ![entry.target] = DataSrc(entry.target)],
          lazy |-> [st.lazy EXCEPT ![entry.target] = FALSE],
          observed |-> st.observed \ {entry.target}]
    ELSE st

RECURSIVE ObserverCallback(_, _)
ObserverCallback(st, entries) ==
    IF entries = <<>> THEN st
    ELSE ObserverCallback(OnEntry(st, Head(entries)), Tail(entries))

\* The batches the browser can deliver: entries for targets observed when the
\* batch was queued, at most MaxEntries of them.
EntryBatches ==
    UNION {[1 .. n -> [target : observed, isIntersecting : BOOLEAN]] :
           n \in 1 .. MaxEntries}

Intersect(entries) ==
    /\ pc = Done
    /\ "intersection" \in registered
    /\ LET st == ObserverCallback([src |-> src, lazy |-> lazy, observed |-> observed],
                                  entries)
       IN /\ src' = st.src
          /\ lazy' = st.lazy
          /\ observed' = st.observed
    /\ delivered' = [i \in Images |->
                        \/ delivered[i]
                        \/ \E k \in DOMAIN entries :
                               entries[k].target = i /\ entries[k].isIntersecting]
    /\ last' = Event("intersection")
    /\ UNCHANGED <<docVars, bootVars, windowVars, header, menuVars, sliderVars,
                   cardStyle, a11yVars, formVars>>

(* --------------------------- form validation -------------------------- *)
\* Field values are strings over a whitespace and a non-whitespace character.
Chars == {" ", "a"}
Strings == UNION {[1 .. n -> Chars] : n \in 0 .. MaxLen}
IsSpace(c) == c = " "

RECURSIVE TrimStart(_)
TrimStart(s) ==
    IF s # <<>> /\ IsSpace(Head(s)) THEN TrimStart(Tail(s)) ELSE s

RECURSIVE TrimEnd(_)
TrimEnd(s) ==
    IF s # <<>> /\ IsSpace(s[Len(s)]) THEN TrimEnd(SubSeq(s, 1, Len(s) - 1)) ELSE s

\* String.prototype.trim
Trim(s) == TrimEnd(TrimStart(s))

\* Element children of the form, in document order.
Input(i) == [tag |-> "input", class |-> "", field |-> i]
ErrorMessage == [tag |-> "span", class |-> "error-message", field |-> 0]
OtherElement == [tag |-> "div", class |-> "", field |-> 0]

Fields == DOMAIN value
IndexOf(nodes, i) == CHOOSE k \in DOMAIN nodes : nodes[k] = Input(i)
HasErrorMessageNext(nodes, i) ==
    LET k == IndexOf(nodes, i) IN
    k < Len(nodes) /\ nodes[k + 1].class = "error-message"
InsertAfter(nodes, k, node) ==
    SubSeq(nodes, 1, k) \o <<node>> \o SubSeq(nodes, k + 1, Len(nodes))
RemoveAt(nodes, k) ==
    SubSeq(nodes, 1, k - 1) \o SubSeq(nodes, k + 1, Len(nodes))

\* ValidateField with isValid set in both branches: the last field decides.
ValidateFieldLastWins(st, i) ==
    IF Trim(value[i]) = <<>>
    THEN [isValid |-> FALSE,
          errorClass |-> [st.errorClass EXCEPT ![i] = TRUE],
          children |-> IF ~HasErrorMessageNext(st.children, i)
                       THEN InsertAfter(st.children, IndexOf(st.children, i),
                                        ErrorMessage)
                       ELSE st.children]
    ELSE [isValid |-> TRUE,
          errorClass |-> [st.errorClass EXCEPT ![i] = FALSE],
          children |-> IF HasErrorMessageNext(st.children, i)
                       THEN RemoveAt(st.children, IndexOf(st.children, i) + 1)
                       ELSE st.children]

\* ValidateField without the test for an error message already in place.
ValidateFieldAlwaysInsert(st, i) ==
    IF Trim(value[i]) = <<>>
    THEN [isValid |-> FALSE,
          errorClass |-> [st.errorClass EXCEPT ![i] = TRUE],
          children |-> InsertAfter(st.children, IndexOf(st.children, i),
                                   ErrorMessage)]
    ELSE [isValid |-> st.isValid,
          errorClass |-> [st.errorClass EXCEPT ![i] = FALSE],
          children |-> IF HasErrorMessageNext(st.children, i)
                       THEN RemoveAt(st.children, IndexOf(st.children, i) + 1)
                       ELSE st.children]

\* The body of validateForm's loop for required field i.
ValidateField(st, i) ==
    IF Trim(value[i]) = <<>>
    THEN [isValid |-> FALSE,
          errorClass |-> [st.errorClass EXCEPT ![i] = TRUE],
          children |-> IF ~HasErrorMessageNext(st.children, i)
                       THEN InsertAfter(st.children, IndexOf(st.children, i),
                                        ErrorMessage)
                       ELSE st.children]
    ELSE [isValid |-> st.isValid,
          errorClass |-> [st.errorClass EXCEPT ![i] = FALSE],
          children |-> IF HasErrorMessageNext(st.children, i)
                       THEN RemoveAt(st.children, IndexOf(st.children, i) + 1)
                       ELSE st.children]

RECURSIVE ValidateFrom(_, _)
ValidateFrom(st, i) ==
    IF i > Len(value) THEN st ELSE ValidateFrom(ValidateField(st, i), i + 1)

\* returned keeps what the last two calls returned, the latest last.
LastTwo(s) == IF Len(s) > 2 THEN Tail(s) ELSE s

\* window.validateForm(form)
ValidateForm ==
    /\ pc = Done
    /\ "validateForm" \in registered
    /\ LET st == ValidateFrom([isValid |-> TRUE, errorClass |-> errorClass,
                               children |-> children], 1)
       IN /\ returned' = LastTwo(Append(returned, st.isValid))
          /\ errorClass' = st.errorClass
          /\ children' = st.children
    /\ last' = Event("validateForm")
    /\ UNCHANGED <<docVars, bootVars, windowVars, header, menuVars, sliderVars,
                   cardStyle, imageVars, a11yVars, value>>

\* What one keystroke can turn the value v into: a character more at the end,
\* or the last character deleted.
Keystrokes(v) ==
    {Append(v, c) : c \in {d \in Chars : Len(v) < MaxLen}}
    \cup {SubSeq(v, 1, Len(v) - 1) : k \in {1} \cap DOMAIN v}

\* The visitor edits field i.
EditField(i, v) ==
    /\ pc = Done
    /\ i \in Fields
    /\ v \in Keystrokes(value[i])
    /\ value' = [value EXCEPT ![i] = v]
    /\ last' = Event("input")
    /\ UNCHANGED <<docVars, bootVars, windowVars, header, menuVars, sliderVars,
                   cardStyle, imageVars, a11yVars, errorClass, children,
                   returned>>

\* Where field i sits among the element children of a form laid out as
\* input, input, div, input, input, div, ...: the first field of a pair is
\* followed by a field, the second by another element, the last by nothing.
Position(i) == i + (i - 1) \div 2

\* A form of n required fields with no error message yet.
Layout(n) ==
    [k \in 1 .. (IF n = 0 THEN 0 ELSE Position(n)) |->
        IF \E i \in 1 .. n : Position(i) = k
        THEN Input(CHOOSE i \in 1 .. n : Position(i) = k)
        ELSE OtherElement]

InitForm(sizes) ==
    \E n \in sizes :
        /\ value = [i \in 1 .. n |-> <<>>]
        /\ errorClass = [i \in 1 .. n |-> FALSE]
        /\ children = Layout(n)
        /\ returned = <<>>

(* --------------------------- specifications --------------------------- *)
Boot ==
    \/ InitStickyHeader
    \/ InitMobileMenu
    \/ InitSmoothScrolling
    \/ InitTestimonialsSlider
    \/ InitPerformanceOptimizations
    \/ InitAccessibilityFeatures
    \/ InitFormValidation
    \/ InitScrollAnimations

\* Mobile menu and smooth scrolling under script.js.
InitNav ==
    /\ InitHost({TRUE}, {600})
    /\ InitPage({"script.js"}, BOOLEAN, BOOLEAN, {2}, {TRUE}, {"", "false", "true"},
                {TRUE}, HeaderHeights, InnerWidths)
    /\ InitForm({1})
NextNav ==
    \/ Boot
    \/ \E h \in HeaderHeights, w \in InnerWidths : Resize(h, w)
    \/ \E t \in ClickTargets : Click(t)
    \/ \E k \in Keys : KeyDown(k)
SpecNav == InitNav /\ [][NextNav]_vars

\* The same events under either script of the repository.
InitRepo ==
    /\ InitHost({TRUE}, {600})
    /\ InitPage({"script.js", "inline"}, BOOLEAN, BOOLEAN, {2}, {TRUE}, {"", "false"},
                {TRUE}, HeaderHeights, InnerWidths)
    /\ InitForm({1})
NextRepo == NextNav \/ InlineScript
SpecRepo == InitRepo /\ [][NextRepo]_vars

\* The sticky header under either script.
NextHeader ==
    \/ Boot
    \/ InlineScript
    \/ \E y \in ScrollOffsets : Scroll(y)
SpecHeader == InitRepo /\ [][NextHeader]_vars

\* The testimonial rotator and the scroll animations.
InitSlider ==
    /\ InitHost({TRUE}, InnerHeights)
    /\ InitPage({"script.js"}, {TRUE}, {TRUE}, 0 .. MaxTestimonials, {TRUE}, {"false"},
                {TRUE}, {80}, {1024})
    /\ InitForm({1})
NextSlider ==
    \/ Boot
    \/ TimerTick
    \/ \E y \in ScrollOffsets : Scroll(y)
SpecSlider == InitSlider /\ [][NextSlider]_vars

\* Lazy image loading.
InitLazy ==
    /\ InitHost({TRUE}, {600})
    /\ InitPage({"script.js"}, {TRUE}, {TRUE}, {2}, BOOLEAN, {"false"}, BOOLEAN,
                {80}, {768, 1024})
    /\ InitForm({1})
NextLazy ==
    \/ Boot
    \/ \E entries \in EntryBatches : Intersect(entries)
SpecLazy == InitLazy /\ [][NextLazy]_vars

\* The form validator.
InitValidator ==
    /\ InitHost({TRUE}, {600})
    /\ InitPage({"script.js"}, {TRUE}, {TRUE}, {2}, {TRUE}, {"false"}, {TRUE},
                {80}, {1024})
    /\ InitForm(0 .. MaxFields)
NextValidator ==
    \/ Boot
    \/ ValidateForm
    \/ \E i \in 1 .. MaxFields, v \in Strings : EditField(i, v)
SpecValidator == InitValidator /\ [][NextValidator]_vars

\* init() on hosts with and without NodeList.prototype.forEach, and the
\* scroll and timer events that follow it.
InitBoot ==
    /\ InitHost(BOOLEAN, {600})
    /\ InitPage({"script.js"}, BOOLEAN, BOOLEAN, {2}, BOOLEAN, {"false"}, {TRUE}, {80}, {1024})
    /\ InitForm({1})
NextBoot ==
    \/ Boot
    \/ TimerTick
    \/ \E y \in ScrollOffsets : Scroll(y)
SpecBoot == InitBoot /\ [][NextBoot]_vars

\* The rotator among the other events of the page.  init() runs to its end
\* without interruption, and a timer set with setInterval goes on firing.
InitRotation ==
    /\ InitHost({TRUE}, {600})
    /\ InitPage({"script.js"}, {TRUE}, {TRUE}, 2 .. MaxTestimonials, {TRUE}, {"false"}, {TRUE}, {80}, {768})
    /\ InitForm({1})
NextRotation ==
    \/ Boot
    \/ TimerTick
    \/ \E y \in ScrollOffsets : Scroll(y)
    \/ \E t \in ClickTargets : Click(t)
    \/ \E k \in Keys : KeyDown(k)
SpecRotation ==
    InitRotation /\ [][NextRotation]_vars /\ WF_vars(Boot) /\ WF_vars(TimerTick)

\* Keyboard and pointer events.
InitKeys ==
    /\ InitHost({TRUE}, {600})
    /\ InitPage({"script.js"}, {TRUE}, BOOLEAN, {2}, {TRUE}, {"false"}, {TRUE}, {80}, InnerWidths)
    /\ InitForm({1})
NextKeys ==
    \/ Boot
    \/ \E k \in Keys : KeyUp(k)
    \/ \E k \in Keys : KeyDown(k)
    \/ MouseDown
    \/ \E t \in ClickTargets : Click(t)
SpecKeys == InitKeys /\ [][NextKeys]_vars

(* ------------------------------- claims ------------------------------- *)
\* The testimonials whose inline display is 'block'.
Shown == {i \in Testimonials : display[i] = "block"}
SliderStarted == nTestimonials >= 2 /\ pc > 4

OneShown ==
    SliderStarted =>
        /\ Cardinality(Shown) = 1
        /\ \A i \in Testimonials \ Shown : display[i] = "none"
        /\ (last.type = "none" => Shown = {0})

TickAdvances ==
    (SliderStarted /\ last'.type = "timer") =>
        \E i \in Testimonials :
            /\ Shown = {i}
            /\ Shown' = {(i + 1) % nTestimonials}

\* C1: with N >= 2 testimonials, in every state after initTestimonialsSlider
\* has run exactly one testimonial has display 'block' and all others 'none';
\* the first one shown is index 0, and each firing of the timer moves the
\* displayed index from i to (i + 1) mod N.
C1_Rotation == []OneShown /\ [][TickAdvances]_vars

\* The timer has wrapped around three testimonials back to index 0.
C1_Witness ==
    /\ nTestimonials = 3
    /\ last.type = "timer"
    /\ display[0] = "block" /\ display[1] = "none" /\ display[2] = "none"

Menu == MenuState(navDisplay, ariaExpanded, focus)
Closed == navDisplay = "none" /\ ariaExpanded = "false"
Open == navDisplay = "flex" /\ ariaExpanded = "true"

\* C2: a click on the toggle flips the menu once the toggle's listener and
\* the document-level click listener have both run: from closed it ends open
\* (display 'flex', aria-expanded 'true'), from open it ends closed (display
\* 'none', aria-expanded 'false'); the document-level listener leaves what
\* the toggle's listener wrote.
C2_ToggleFlips ==
    (last.type = "click" /\ last.region = "toggle") =>
        /\ (last.pre.navDisplay \in {"", "none"} => Open)
        /\ (last.pre.navDisplay = "flex" => Closed)
        /\ Menu = last.mid

\* The second click on the toggle: the menu was open and is closed again.
C2_Witness ==
    /\ last.type = "click" /\ last.region = "toggle"
    /\ last.pre.navDisplay = "flex" /\ last.pre.ariaExpanded = "true"
    /\ Closed

\* C3: a click outside both the toggle and the nav panel while the menu is
\* open leaves it closed (display 'none', aria-expanded 'false'); for a click
\* inside the toggle or the panel the document-level listener changes nothing.
C3_OutsideCloses ==
    last.type = "click" =>
        /\ (last.region = "outside" /\ last.pre.navDisplay = "flex" => Closed)
        /\ (last.region \in {"toggle", "panel"} => Menu = last.mid)

\* An open menu closed by a click on a plain element outside.
C3_Witness ==
    /\ last.type = "click" /\ last.region = "outside" /\ last.href = ""
    /\ last.pre.navDisplay = "flex"
    /\ Closed

\* C4: an Escape keydown while the menu is open closes it and focuses the
\* toggle; an Escape keydown while it is not open, and a keydown of any other
\* key, leave display, aria-expanded and focus as they were.
C4_Escape ==
    last.type = "keydown" =>
        IF last.key = "Escape" /\ last.pre.navDisplay = "flex"
        THEN Closed /\ focus = "toggle"
        ELSE Menu = last.pre

\* Escape closed an open menu while the focus was elsewhere.
C4_Witness ==
    /\ last.type = "keydown" /\ last.key = "Escape"
    /\ last.pre.navDisplay = "flex" /\ last.pre.focus # "toggle"
    /\ Closed /\ focus = "toggle"

\* A value with nothing but whitespace in it.
Blank(v) == \A k \in DOMAIN v : v[k] = " "

\* The error messages that directly follow field i among its siblings.
MessagesOf(i) ==
    LET k == IndexOf(children, i) IN
    {m \in DOMAIN children :
        m > k /\ \A j \in (k + 1) .. m : children[j].class = "error-message"}

AllMessages == {m \in DOMAIN children : children[m].class = "error-message"}

\* C5: validateForm returns true exactly when every required field has a
\* non-empty trimmed value; after the call a required field carries the
\* 'error' class exactly when its trimmed value is empty, and a filled field
\* has no error message.
C5_ValidatorResult ==
    last.type = "validateForm" =>
        /\ returned[Len(returned)] = \A i \in Fields : ~Blank(value[i])
        /\ \A i \in Fields : errorClass[i] <=> Blank(value[i])
        /\ \A i \in Fields : ~Blank(value[i]) => MessagesOf(i) = {}

\* One field holding only a space and one filled field: the result is false
\* and only the first is marked.
C5_Witness ==
    /\ last.type = "validateForm"
    /\ Len(value) = 2 /\ value[1] = <<" ">> /\ value[2] = <<"a">>
    /\ returned[Len(returned)] = FALSE
    /\ errorClass[1] /\ ~errorClass[2]

\* C6: across validateForm calls and edits a required field never has more
\* than one error message; right after a call it has exactly one if its
\* trimmed value is empty and none if it is filled, and the form holds no
\* other error message.
C6_OneMessage ==
    /\ \A i \in Fields : Cardinality(MessagesOf(i)) <= 1
    /\ Cardinality(AllMessages) <= Len(value)
    /\ last.type = "validateForm" =>
           /\ \A i \in Fields :
                  Cardinality(MessagesOf(i)) = IF Blank(value[i]) THEN 1 ELSE 0
           /\ Cardinality(AllMessages) =
                  Cardinality({i \in Fields : Blank(value[i])})

\* A call returned false and left a message; the field was then filled and
\* the next call returned true and left no message.
C6_Witness ==
    /\ last.type = "validateForm"
    /\ returned = <<FALSE, TRUE>>
    /\ Len(value) = 1 /\ ~Blank(value[1])
    /\ children = <<Input(1)>>

\* C7: a click on a same-page anchor whose href is '#' or names no element
\* prevents the default navigation and does nothing else: no scrollTo, no
\* pushState, the anchor's handler leaves menu and focus alone, no exception.
C7_MissingTarget ==
    (last.type = "click" /\ last.href \in {"#", "#missing"}) =>
        /\ last.defaultPrevented
        /\ last.scrollTo = <<>>
        /\ last.pushState = <<>>
        /\ last.mid = last.pre
        /\ last.errors = {}

\* A click on the anchor with the missing target, on a page without a header
\* and with the menu open.
C7_Witness ==
    /\ last.type = "click" /\ last.href = "#missing" /\ last.region = "panel"
    /\ ~headerPresent
    /\ last.pre.navDisplay = "flex" /\ navDisplay = "flex"

\* C8: a click on a same-page anchor whose href names an existing element
\* requests a scroll to the target's top minus the header's height as rendered
\* at that click, and pushes the fragment so that the URL fragment is the href.
C8_ScrollToTarget ==
    (/\ headerPresent
     /\ {"click:anchor", "click:anchor:inline"} \cap registered # {}
     /\ last.type = "click" /\ last.href \in ExistingIds) =>
        /\ last.scrollTo = <<OffsetTop(last.href) - headerHeight>>
        /\ last.pushState = <<last.href>>
        /\ urlFragment = last.href

\* C8 under script.js alone.
C8_ScriptJs == script = "script.js" => C8_ScrollToTarget

ImageState ==
    \A i \in Images :
        /\ ~delivered[i] => src[i] = 0
        /\ delivered[i] => src[i] = i /\ ~lazy[i] /\ i \notin observed

SwappedOnce ==
    \A i \in Images : src'[i] # src[i] => src[i] = 0 /\ delivered'[i]

\* C9: an image's src does not change before an entry with isIntersecting
\* true is delivered for it; from that entry on its src is its data-src, the
\* 'lazy' class is gone and it is unobserved, so its src changes at most once.
C9_LazyOneShot == []ImageState /\ [][SwappedOnce]_vars

\* Image 1 was swapped, image 2 has only had entries that do not intersect.
C9_Witness ==
    /\ last.type = "intersection"
    /\ delivered[1] /\ src[1] = 1 /\ 1 \notin observed
    /\ ~delivered[2] /\ src[2] = 0 /\ 2 \in observed

HeaderFollowsOffset ==
    (headerPresent /\ last.type = "scroll") =>
        /\ scrollY > 100 =>
               /\ header.padding = "10px 0"
               /\ header.boxShadow = "0 5px 20px rgba(0, 0, 0, 0.1)"
        /\ scrollY <= 100 =>
               /\ header.padding = "20px 0"
               /\ header.boxShadow = "0 2px 10px rgba(0, 0, 0, 0.1)"

RepeatedOffset ==
    (last.type = "scroll" /\ last'.type = "scroll" /\ scrollY' = scrollY) =>
        header' = header

\* C10: after every scroll event the header's padding and shadow are the
\* compact values exactly when the scroll offset is greater than 100 and the
\* default values otherwise; a scroll event that repeats the offset of the one
\* before it leaves the style as it is.
C10_StickyThreshold == []HeaderFollowsOffset /\ [][RepeatedOffset]_vars

\* A scroll event at the threshold itself, under the inline script.
C10_Witness ==
    /\ headerPresent /\ last.type = "scroll" /\ scrollY = 100
    /\ script = "inline"
    /\ header.padding = "20px 0"

\* A testimonial the visitor can see: rendered and not transparent.
Visible(i) == display[i] # "none" /\ cardStyle[i].opacity # "0"

SingleUntouched ==
    /\ "timer" \notin registered
    /\ \A i \in Testimonials : display[i] = "" /\ ariaHidden[i] = ""

\* C11 as stated: with at most one testimonial no timer is created, display
\* and aria-hidden of the testimonial are never written, and once init() has
\* run all its initializers the testimonial, if there is one, is visible.
C11_SingleStaysVisible ==
    nTestimonials <= 1 =>
        /\ SingleUntouched
        /\ pc = Done => \A i \in Testimonials : Visible(i)

\* C11: with at most one testimonial no timer is created and display and
\* aria-hidden of the testimonial are never written; initScrollAnimations
\* leaves the testimonial at opacity 1 if its top edge is above viewport
\* height - 150 at startup and at opacity 0 otherwise, and a later scroll
\* event that finds the top edge above that line sets the opacity to 1.
C11_SingleUntouched ==
    nTestimonials <= 1 =>
        /\ SingleUntouched
        /\ \A i \in Testimonials :
               /\ (pc = Done /\ last.type = "none") =>
                      cardStyle[i].opacity =
                          IF CardTop(i) - scrollY < innerHeight - 150
                          THEN "1" ELSE "0"
               /\ (last.type = "scroll" /\ CardTop(i) - scrollY < innerHeight - 150) =>
                      cardStyle[i].opacity = "1"

\* The only testimonial is below the fold when init() has finished: it is
\* rendered, but transparent.
C11_Witness ==
    /\ nTestimonials = 1 /\ pc = Done /\ last.type = "none"
    /\ "timer" \notin registered
    /\ display[0] = "" /\ cardStyle[0].opacity = "0"

Logged(m) == \E i \in DOMAIN consoleLog : consoleLog[i] = m
Range(seq) == {seq[i] : i \in DOMAIN seq}

\* The initializers that have returned; one that threw is the last one called.
Completed ==
    IF Logged(InitError) THEN SubSeq(called, 1, Len(called) - 1) ELSE called

\* The listeners each initializer leaves behind on this document.
InstalledBy(name) ==
    CASE name = "initStickyHeader" -> {"scroll:sticky"}
      [] name = "initMobileMenu" ->
             IF menuPresent
             THEN {"click:toggle", "click:document", "keydown:document"} ELSE {}
      [] name = "initSmoothScrolling" -> {"click:anchor"}
      [] name = "initTestimonialsSlider" ->
             IF nTestimonials >= 2 THEN {"timer"} ELSE {}
      [] name = "initPerformanceOptimizations" ->
             IF ioSupported THEN {"intersection"} ELSE {}
      [] name = "initAccessibilityFeatures" -> {"keyup", "mousedown"}
      [] name = "initFormValidation" -> {"validateForm"}
      [] name = "initScrollAnimations" -> {"scroll:animate"}

InitOutcome ==
    /\ called = SubSeq(Initializers, 1, Len(called))
    /\ Logged(InitSuccess) <=> Completed = Initializers
    /\ \A n \in Range(Completed) : InstalledBy(n) \subseteq registered
    /\ Logged(InitError) =>
           /\ pc = Done
           /\ consoleLog = <<InitError>>
           /\ \A n \in Range(Initializers) \ Range(called) :
                  InstalledBy(n) \cap registered = {}

InitAborts ==
    /\ Logged(InitError) =>
           called' = called /\ registered' = registered /\ consoleLog' = consoleLog
    /\ (~Logged(InitError) /\ Logged(InitError)') => last' = last

\* C12: init() calls the eight initializers in their fixed order.  If one of
\* them throws, what the earlier ones installed stays, no later one is called
\* then or afterwards, the error is logged by init() itself and no error event
\* is dispatched; the success message is logged exactly when all eight have
\* returned.
C12_Bootstrap == []InitOutcome /\ [][InitAborts]_vars

\* initSmoothScrolling threw on a host without forEach; the sticky-header
\* listener installed before it still styles the header on scroll.
C12_Witness ==
    /\ pc = Done /\ consoleLog = <<InitError>>
    /\ called = <<"initStickyHeader", "initMobileMenu", "initSmoothScrolling">>
    /\ menuPresent /\ "keydown:document" \in registered
    /\ "timer" \notin registered
    /\ last.type = "scroll" /\ header = CompactStyle

HeaderlessScroll ==
    (~headerPresent /\ forEachSupported) =>
        /\ pc = Done => consoleLog = <<InitSuccess>> /\ called = Initializers
        /\ last.type = "scroll" =>
               /\ last.errors = {"scroll:sticky"}
               /\ last.logged = {"scroll:sticky"}
               /\ header = UnsetStyle
               /\ "scroll:sticky" \in registered
               /\ \A c \in Cards :
                      RectTop(c, scrollY, display) < innerHeight - 150 =>
                          /\ cardStyle[c].opacity = "1"
                          /\ cardStyle[c].transform = "translateY(0)"

\* C13: on a page without a header element init() still completes all eight
\* initializers and logs no error; every scroll event after it raises an error
\* in the sticky-header listener, which the window's error listener logs and
\* nothing else handles; animateOnScroll still runs for the same event and
\* reveals the cards in view; the failing listener stays registered, so the
\* next scroll event fails in the same way.
C13_HeaderlessScroll == HeaderlessScroll

\* A scroll event on a page without a header: the listener failed, the error
\* was logged, and the pricing card was revealed by the same event.
C13_Witness ==
    /\ ~headerPresent /\ last.type = "scroll" /\ scrollY = 600
    /\ last.logged = {"scroll:sticky"}
    /\ cardStyle[PricingCard] = RevealedCard
    /\ \E i \in Testimonials : display[i] = "block" /\ cardStyle[i] = HiddenCard

AnchorToTarget == menuPresent /\ last.type = "click" /\ last.href \in ExistingIds
SameDisplayAndAria(a, b) ==
    a.navDisplay = b.navDisplay /\ a.ariaExpanded = b.ariaExpanded

\* C14 as stated, on a page with a header: the anchor's handler closes the
\* menu at width <= 768 and leaves display and aria-expanded alone at width
\* > 768, and with the document-level listener of the same click an open menu
\* is still open after an anchor click at width > 768.
C14_OpenStaysOpen ==
    (AnchorToTarget /\ headerPresent) =>
        /\ innerWidth <= 768 =>
               last.mid.navDisplay = "none" /\ last.mid.ariaExpanded = "false"
        /\ innerWidth > 768 => SameDisplayAndAria(last.mid, last.pre)
        /\ (innerWidth > 768 /\ last.pre.navDisplay = "flex") => navDisplay = "flex"

\* C14: on a page with a header the anchor's handler closes the menu at width
\* <= 768 and leaves display and aria-expanded alone at width > 768; without
\* a header it throws before it reaches the menu and leaves both alone at any
\* width.  The document-level listener of the same click then keeps what the
\* handler left if the anchor is inside the nav panel, and closes an open
\* menu if the anchor is outside the panel, at any width.
C14_AnchorAndMenu ==
    AnchorToTarget =>
        /\ (headerPresent /\ innerWidth <= 768) =>
               last.mid.navDisplay = "none" /\ last.mid.ariaExpanded = "false"
        /\ (~headerPresent \/ innerWidth > 768) =>
               SameDisplayAndAria(last.mid, last.pre)
        /\ last.region = "panel" => SameDisplayAndAria(Menu, last.mid)
        /\ (last.region = "outside" /\ last.pre.navDisplay = "flex") => Closed

\* At width 1024 an anchor outside the panel was clicked while the menu was
\* open: the anchor's handler left it open, the document listener closed it.
C14_Witness ==
    /\ AnchorToTarget /\ headerPresent /\ innerWidth = 1024
    /\ last.region = "outside"
    /\ last.pre.navDisplay = "flex" /\ last.mid.navDisplay = "flex"
    /\ Closed

AboveLine(c) == RectTop(c, scrollY, display) < innerHeight - 150

RevealRule ==
    pc = Done =>
        /\ \A c \in Cards : cardStyle[c] \in {HiddenCard, RevealedCard}
        /\ last.type \in {"none", "scroll"} =>
               \A c \in Cards :
                   AboveLine(c) =>
                       /\ cardStyle[c].opacity = "1"
                       /\ cardStyle[c].transform = "translateY(0)"
        /\ last.type = "none" =>
               \A c \in Cards :
                   ~AboveLine(c) =>
                       /\ cardStyle[c].opacity = "0"
                       /\ cardStyle[c].transform = "translateY(20px)"

StaysRevealed ==
    \A c \in Cards : cardStyle[c].opacity = "1" => cardStyle'[c] = cardStyle[c]

\* C15: initScrollAnimations puts every card at opacity 0 with a downward
\* offset; its startup check and every scroll event give opacity 1 and offset
\* 0 to each card whose top edge is less than viewport height - 150; a card
\* that has opacity 1 keeps it in every later step, whatever the event.
C15_OneWayReveal == []RevealRule /\ [][StaysRevealed]_vars

\* The page was scrolled back to the top: the pricing card is below the line
\* again and still revealed, the testimonial on display was never revealed.
C15_Witness ==
    /\ last.type = "scroll" /\ scrollY = 0 /\ innerHeight = 600
    /\ ~AboveLine(PricingCard) /\ cardStyle[PricingCard] = RevealedCard
    /\ \E i \in Testimonials : display[i] = "block" /\ cardStyle[i] = HiddenCard

TimerStays == "timer" \in registered => "timer" \in registered'

\* C16: with N >= 2 testimonials no step removes the rotation timer, and
\* with a timer that goes on firing every testimonial 0..N-1 is on display
\* infinitely often, whatever scroll, click and key events come in between.
C16_RotationNeverStops ==
    /\ [][TimerStays]_vars
    /\ \A i \in 0 .. (MaxTestimonials - 1) :
           []<>((nTestimonials >= 2 /\ i \in Testimonials) => display[i] = "block")

\* The rotator has reached the last of three testimonials while the menu was
\* opened and the page scrolled.
C16_Witness ==
    /\ nTestimonials = 3 /\ display[2] = "block"
    /\ navDisplay = "flex" /\ scrollY = 1200
    /\ last.type = "timer"

Bookkeeping ==
    SliderStarted =>
        /\ currentTestimonial \in 0 .. (nTestimonials - 1)
        /\ Shown = {currentTestimonial}
        /\ \A i \in Testimonials :
               ariaHidden[i] = IF display[i] = "block" THEN "false" ELSE "true"

OnlyInShowTestimonial ==
    currentTestimonial' # currentTestimonial =>
        /\ last'.type = "timer"
        /\ \A i \in Testimonials :
               /\ display'[i] = IF i = currentTestimonial' THEN "block" ELSE "none"
               /\ ariaHidden'[i] = IF i = currentTestimonial' THEN "false" ELSE "true"

\* C17: with N >= 2 testimonials, once the rotator is set up currentTestimonial
\* is within 0..N-1 and is the index of the one testimonial on display;
\* aria-hidden is 'true' on every testimonial not on display and 'false' on
\* the one on display; and a step that changes currentTestimonial is a timer
\* tick that writes display and aria-hidden of every testimonial for the new
\* index, as showTestimonial does.
C17_Bookkeeping == []Bookkeeping /\ [][OnlyInShowTestimonial]_vars

\* Two ticks after startup of three testimonials: the last one is on display.
C17_Witness ==
    /\ nTestimonials = 3 /\ last.type = "timer" /\ currentTestimonial = 2
    /\ display[2] = "block" /\ ariaHidden[2] = "false"
    /\ ariaHidden[0] = "true" /\ ariaHidden[1] = "true"

ModeFollowsLastEvent == keyboardNavigation <=> modeEvent = "keyup:Tab"

OtherKeysLeaveMode ==
    (last'.type = "keyup" /\ last'.key # "Tab") =>
        keyboardNavigation' = keyboardNavigation

\* C18: the root element has the 'keyboard-navigation' class exactly when the
\* later of the last Tab keyup and the last mousedown is the Tab keyup (and
\* not before either has happened); a keyup of another key leaves the class
\* as it is.
C18_KeyboardMode == []ModeFollowsLastEvent /\ [][OtherKeysLeaveMode]_vars

\* The class set by a Tab keyup is still there after the keyup of Enter.
C18_Witness ==
    /\ last.type = "keyup" /\ last.key = "Enter"
    /\ modeEvent = "keyup:Tab" /\ keyboardNavigation

\* Every handler that writes the menu state sets the panel's display to
\* 'flex' or 'none'; before the first of them the inline display is empty.
MenuWritten == navDisplay # ""

\* C19: once a handler has written the menu state (toggle click, click
\* outside, Escape keydown, or an anchor click that closes the menu), through
\* any sequence of such events and of clicks inside the panel at any width,
\* the toggle's aria-expanded is 'true' exactly when the nav panel's display
\* is 'flex'.
C19_AriaMatchesDisplay ==
    MenuWritten => (ariaExpanded = "true" <=> navDisplay = "flex")

\* The page came with aria-expanded 'true' on a panel with no inline display;
\* an anchor click at width 768 was the first handler to write both.
C19_Witness ==
    /\ last.type = "click" /\ last.href \in ExistingIds /\ last.region = "panel"
    /\ innerWidth = 768
    /\ last.pre.navDisplay = "" /\ last.pre.ariaExpanded = "true"
    /\ navDisplay = "none" /\ ariaExpanded = "false"

====
